---- MODULE Spec2Model ----
(***************************************************************************)
(* A model of the IFT server conformance test helpers:                     *)
(*   integer_list.py  - the IntegerList decoder (UIntBase128 + zigzag +    *)
(*                      running sum),                                      *)
(*   fast_hash.py     - the 64 bit fast hash,                              *)
(*   axis_util.py     - comparison of axis spaces,                         *)
(*   font_util.py     - add_intervals / union / intersects,                *)
(*   sample_requests.py - ValidRequests.compressed_set,                    *)
(*                      minimal_patch_request and the request fixtures,    *)
(*   response_checker.py - the ResponseChecker sessions,                   *)
(*   test_server.py   - the tests that reject malformed requests.          *)
(*                                                                         *)
(* Python integers are unbounded while TLC's are 32 bit, so every integer  *)
(* that can pass 2^31 is kept as a pair <<hi, lo>> standing for            *)
(* hi * 2^16 + lo with 0 <= lo < 2^16 (a "wide" integer), and 64 bit hash  *)
(* words are kept as eight octets, least significant first.                *)
(***************************************************************************)
EXTENDS Integers, Sequences, FiniteSets, TLC

VARIABLES
  encoded_bytes,   \* integer_list.decode: the argument
  decode_result,   \* integer_list.decode: its outcome (pending / returned / raised)
  data,            \* fast_hash.compute: the argument
  hash_result,     \* fast_hash.compute: its outcome
  space_1,         \* axis_util.axis_space_equal: first argument
  space_2,         \* axis_util.axis_space_equal: second argument
  equal_result,    \* axis_util.axis_space_equal: its outcome
  intervals,       \* font_util.add_intervals: the list it updates in place
  inserted,        \* the intervals handed to add_intervals so far, in call order
  codepoints,      \* ValidRequests.compressed_set: the argument
  compressed,      \* ValidRequests.compressed_set: its outcome
  sessions,        \* ResponseChecker: the attributes of each session made so far
  last_call,       \* ResponseChecker: the last method call and how it ended
  requests         \* the requests extend handed to its requester, in order

integer_list_vars == <<encoded_bytes, decode_result>>

fast_hash_vars == <<data, hash_result>>

axis_vars == <<space_1, space_2, equal_result>>

interval_vars == <<intervals, inserted>>

compressed_set_vars == <<codepoints, compressed>>

checker_vars == <<sessions, last_call, requests>>

vars ==
  <<integer_list_vars, fast_hash_vars, axis_vars, interval_vars, compressed_set_vars,
    checker_vars>>

\* An operation that has not run yet.
Pending == [status |-> "pending"]

\* ------------------------------------------------------------------------
\* Bounds of the model
\* ------------------------------------------------------------------------

\* Longest byte stream handed to integer_list.decode (besides the fixed vectors).
MaxStreamLen == 6

\* ------------------------------------------------------------------------
\* Wide integers: <<hi, lo>> is hi * 2^16 + lo
\* ------------------------------------------------------------------------

WideBase == 2^16

WNorm(hi, lo) == <<hi + (lo \div WideBase), lo % WideBase>>

WideOf(n) == WNorm(0, n)

WAdd(a, b) == WNorm(a[1] + b[1], a[2] + b[2])

WNeg(a) == WNorm(-a[1], -a[2])

\* floor(a / 2)
WHalf(a) == <<a[1] \div 2, (a[2] + (a[1] % 2) * WideBase) \div 2>>

RECURSIVE BitAnd(_, _)
\* x & y on naturals, bit by bit
BitAnd(x, y) ==
  IF x = 0 \/ y = 0 THEN 0
  ELSE (x % 2) * (y % 2) + 2 * BitAnd(x \div 2, y \div 2)

\* a & m for wide naturals
WAnd(a, m) == <<BitAnd(a[1], m[1]), BitAnd(a[2], m[2])>>

\* (a << 7) | low7, for low7 in 0..127 (the shifted value has its low 7 bits clear)
WShl7Or(a, low7) == WNorm(a[1] * 128, a[2] * 128 + low7)

\* ------------------------------------------------------------------------
\* integer_list.py
\* ------------------------------------------------------------------------

ConformanceException(message, conformance_id) ==
  [status |-> "raised", message |-> message, conformance_id |-> conformance_id,
   value |-> <<0, 0>>, index |-> 0, values |-> <<>>]

\* 0xFE000000 = 0xFE00 * 2^16
OverflowMask == <<65024, 0>>

\* decode_zig_zag with the odd branch rounding the wrong way: -(value / 2).
decode_zig_zag_no_round(value) ==
  IF BitAnd(value[2], 1) # 0
    THEN WNeg(WHalf(value))
    ELSE WHalf(value)

\* int(-((value + 1) / 2)) and int(value / 2): the float quotients are exact,
\* every value that reaches decode_zig_zag being below 2^53.
decode_zig_zag(value) ==
  IF BitAnd(value[2], 1) # 0
    THEN WNeg(WHalf(WAdd(value, WideOf(1))))
    ELSE WHalf(value)

has_more(eb, index) == index < Len(eb)

\* read_byte that yields a zero octet past the end instead of raising.
read_byte_zero_fill(eb, index) ==
  IF index < Len(eb)
    THEN [status |-> "returned", byte |-> eb[index + 1], index |-> index + 1]
    ELSE [status |-> "returned", byte |-> 0, index |-> index + 1]

read_byte(eb, index) ==
  IF index < Len(eb)
    THEN [status |-> "returned", byte |-> eb[index + 1], index |-> index + 1]
    ELSE ConformanceException("Out of bounds read.", "conform-uintbase128-illegal")

\* The overflow test with the mask 0xF0000000: bits 25..27 go unchecked.
exceeds_32_bits_narrow_mask(value) == WAnd(value, <<61440, 0>>) # <<0, 0>>

\* value & 0xFE000000: one of the bits the next shift by 7 would push past bit 31.
exceeds_32_bits(value) == WAnd(value, OverflowMask) # <<0, 0>>

RECURSIVE next_int_loop(_, _, _, _)
\* The while loop of Decoder.next_int, entered with the loop's variables.
next_int_loop(eb, index, value, bytes_read) ==
  IF ~(bytes_read < 5)
    THEN ConformanceException("UIntBase128 has more than 5 bytes.",
                              "conform-uintbase128-illegal")
    ELSE
      LET rb == read_byte(eb, index) IN
      IF rb.status = "raised" THEN rb
      ELSE
        LET next_byte == rb.byte
            read == bytes_read + 1
        IN
        IF read = 1 /\ next_byte = 128
          THEN ConformanceException("Leading 0's are not allowed",
                                    "conform-uintbase128-illegal")
        ELSE IF exceeds_32_bits(value)
          THEN ConformanceException("UIntBase128 exceeds 2^32-1.",
                                    "conform-uintbase128-illegal")
        ELSE
          LET shifted == WShl7Or(value, BitAnd(next_byte, 127)) IN
          IF BitAnd(128, next_byte) = 0
            THEN [status |-> "returned", value |-> decode_zig_zag(shifted),
                  index |-> rb.index]
            ELSE next_int_loop(eb, rb.index, shifted, read)

next_int(eb, index) ==
  IF ~has_more(eb, index)
    THEN [status |-> "returned", value |-> <<0, 0>>, index |-> index]
    ELSE next_int_loop(eb, index, <<0, 0>>, 0)

RECURSIVE read_deltas(_, _, _)
\* The first loop of decode: deltas.append(decoder.next_int()) while has_more.
read_deltas(eb, index, deltas) ==
  IF ~has_more(eb, index)
    THEN [status |-> "returned", values |-> deltas]
    ELSE
      LET n == next_int(eb, index) IN
      IF n.status = "raised" THEN n
      ELSE read_deltas(eb, n.index, Append(deltas, n.value))

RECURSIVE running_sum(_, _, _)
\* The second loop of decode: values.append(last_value + delta).
running_sum(deltas, last_value, values) ==
  IF deltas = <<>> THEN values
  ELSE
    LET next_value == WAdd(Head(deltas), last_value) IN
    running_sum(Tail(deltas), next_value, Append(values, next_value))

decode(eb) ==
  LET d == read_deltas(eb, 0, <<>>) IN
  IF d.status = "raised" THEN d
  ELSE [status |-> "returned", values |-> running_sum(d.values, <<0, 0>>, <<>>)]

\* ------------------------------------------------------------------------
\* fast_hash.py.  A 64 bit word is its eight octets, least significant first.
\* ------------------------------------------------------------------------

\* 0x11743e80f437ffe6
SEED == <<230, 255, 55, 244, 128, 62, 116, 17>>

\* 0x880355f21e6d1965
M == <<101, 25, 109, 30, 242, 85, 3, 136>>

\* 0x2127599bf4325c37
MixMultiplier == <<55, 92, 50, 244, 155, 89, 39, 33>>

RECURSIVE BitXor(_, _)
\* x ^ y on naturals, bit by bit
BitXor(x, y) ==
  IF x = 0 THEN y
  ELSE IF y = 0 THEN x
  ELSE ((x + y) % 2) + 2 * BitXor(x \div 2, y \div 2)

\* a ^ b on words
Xor64(a, b) == [i \in 1..8 |-> BitXor(a[i], b[i])]

\* Octet i of a word, zero past the top.
Octet(w, i) == IF i <= 8 THEN w[i] ELSE 0

\* w >> n on words
Shr64(w, n) ==
  LET q == n \div 8
      r == n % 8
  IN [i \in 1..8 |->
        (Octet(w, i + q) \div (2 ^ r) + (Octet(w, i + q + 1) % (2 ^ r)) * (2 ^ (8 - r))) % 256]

RECURSIVE ColumnSum(_, _, _, _)
\* sum of a[i] * b[k + 1 - i] for i in from..k: the products of weight 256^(k-1)
ColumnSum(a, b, k, from) ==
  IF from > k THEN 0
  ELSE a[from] * b[k + 1 - from] + ColumnSum(a, b, k, from + 1)

RECURSIVE MulColumns(_, _, _, _)
MulColumns(a, b, k, carry) ==
  IF k > 8 THEN <<>>
  ELSE LET column == carry + ColumnSum(a, b, k, 1) IN
       <<column % 256>> \o MulColumns(a, b, k + 1, column \div 256)

\* _uint64(a * b): the product, kept modulo 2^64 (the octets above the eighth
\* are dropped).
uint64_mul(a, b) == MulColumns(a, b, 1, 0)

\* len(data) as a word (lengths stay below 2^16).
WordOfLen(n) == <<n % 256, (n \div 256) % 256, 0, 0, 0, 0, 0, 0>>

\* int.from_bytes(octets, byteorder='little', signed=False) for up to 8 octets.
from_bytes_little(octets) ==
  [i \in 1..8 |-> IF i <= Len(octets) THEN octets[i] ELSE 0]

\* _mix with a shift of 32 where the code shifts by 23.
mix_wrong_shift(value) ==
  LET v1 == Xor64(value, Shr64(value, 32))
      v2 == uint64_mul(v1, MixMultiplier)
  IN Xor64(v2, Shr64(v2, 47))

mix(value) ==
  LET v1 == Xor64(value, Shr64(value, 23))
      v2 == uint64_mul(v1, MixMultiplier)
  IN Xor64(v2, Shr64(v2, 47))

RECURSIVE compute_loop(_, _, _)
\* for i in range(0, len(data) - 7, 8)
compute_loop(d, i, hash_value) ==
  IF i < Len(d) - 7
    THEN LET next_value == from_bytes_little(SubSeq(d, i + 1, i + 8)) IN
         compute_loop(d, i + 8, uint64_mul(Xor64(hash_value, mix(next_value)), M))
    ELSE hash_value

compute(d) ==
  LET hash_value == compute_loop(d, 0, Xor64(SEED, uint64_mul(WordOfLen(Len(d)), M)))
      remaining == Len(d) % 8
  IN
  IF remaining = 0 THEN mix(hash_value)
  ELSE
    LET last_value ==
          from_bytes_little(SubSeq(d, Len(d) - remaining + 1, Len(d))
                            \o [i \in 1..(8 - remaining) |-> 0])
    IN mix(uint64_mul(Xor64(hash_value, mix(last_value)), M))

\* ------------------------------------------------------------------------
\* axis_util.py.  An AxisInterval is a function on {AXIS_START} or on
\* {AXIS_START, AXIS_END}; an axis space maps its tags to lists of intervals.
\* ------------------------------------------------------------------------

AXIS_START == 0

AXIS_END == 1

Point(start) == AXIS_START :> start

Range(start, end) == (AXIS_START :> start) @@ (AXIS_END :> end)

\* normalize_interval without the start == end test: only a missing end is a point.
normalize_interval_keep_degenerate(interval) ==
  IF AXIS_END \notin DOMAIN interval
    THEN Point(interval[AXIS_START])
    ELSE Range(interval[AXIS_START], interval[AXIS_END])

\* end is None (AXIS_END not in interval) or start == end: the point form.
\* Both start and end are numbers when present.
normalize_interval(interval) ==
  LET start == interval[AXIS_START] IN
  IF AXIS_END \notin DOMAIN interval \/ start = interval[AXIS_END]
    THEN Point(start)
    ELSE Range(start, interval[AXIS_END])

\* list.insert for sorted(): x goes after every element whose key is <= its own
\* (sorted() is stable: equal keys keep their input order).
InsertByStart(sorted_list, x) ==
  LET before == Cardinality({i \in 1..Len(sorted_list) :
                               sorted_list[i][AXIS_START] <= x[AXIS_START]})
  IN SubSeq(sorted_list, 1, before) \o <<x>> \o SubSeq(sorted_list, before + 1, Len(sorted_list))

RECURSIVE sorted_by_start(_)
\* sorted(intervals, key=lambda interval: interval[AXIS_START])
sorted_by_start(list) ==
  IF list = <<>> THEN <<>>
  ELSE InsertByStart(sorted_by_start(SubSeq(list, 1, Len(list) - 1)), list[Len(list)])

\* normalize_intervals without the sort.
normalize_intervals_unsorted(list) ==
  [i \in 1..Len(list) |-> normalize_interval(list[i])]

normalize_intervals(list) ==
  LET ordered == sorted_by_start(list) IN
  [i \in 1..Len(ordered) |-> normalize_interval(ordered[i])]

\* axis_intervals_equal that compares the start values alone.
axis_intervals_equal_starts_only(intervals_1, intervals_2) ==
  LET n1 == normalize_intervals(intervals_1)
      n2 == normalize_intervals(intervals_2)
  IN [i \in 1..Len(n1) |-> n1[i][AXIS_START]] = [i \in 1..Len(n2) |-> n2[i][AXIS_START]]

axis_intervals_equal(intervals_1, intervals_2) ==
  normalize_intervals(intervals_1) = normalize_intervals(intervals_2)

\* axis_space_equal without the comparison of the two lengths.
axis_space_equal_no_len(s1, s2) ==
  \A tag \in DOMAIN s1 :
    /\ tag \in DOMAIN s2
    /\ axis_intervals_equal(s1[tag], s2[tag])

axis_space_equal(s1, s2) ==
  IF Cardinality(DOMAIN s1) # Cardinality(DOMAIN s2) THEN FALSE
  ELSE \A tag \in DOMAIN s1 :
         /\ tag \in DOMAIN s2
         /\ axis_intervals_equal(s1[tag], s2[tag])

\* ------------------------------------------------------------------------
\* font_util.py: add_intervals, union, intersects.  An interval is the dict
\* {0: start, 1: end}.
\* ------------------------------------------------------------------------

RECURSIVE bisect(_, _, _, _)
\* bisect.bisect(keys, x) (bisect_right), entered with lo = 0 and hi = len(keys).
bisect(keys, x, lo, hi) ==
  IF lo < hi
    THEN LET mid == (lo + hi) \div 2 IN
         IF x < keys[mid + 1] THEN bisect(keys, x, lo, mid)
         ELSE bisect(keys, x, mid + 1, hi)
    ELSE lo

\* list.insert(index, x), index counted from 0.
ListInsert(list, index, x) ==
  SubSeq(list, 1, index) \o <<x>> \o SubSeq(list, index + 1, Len(list))

Min(a, b) == IF a <= b THEN a ELSE b

Max(a, b) == IF a >= b THEN a ELSE b

\* union that takes the end of interval_2 instead of the larger end.
union_last_end(interval_1, interval_2) ==
  (0 :> Min(interval_1[0], interval_2[0])) @@ (1 :> interval_2[1])

union(interval_1, interval_2) ==
  (0 :> Min(interval_1[0], interval_2[0])) @@ (1 :> Max(interval_1[1], interval_2[1]))

\* intersects with strict comparisons: touching intervals do not intersect.
intersects_strict(interval_1, interval_2) ==
  interval_2[0] < interval_1[1] /\ interval_1[0] < interval_2[1]

intersects(interval_1, interval_2) ==
  interval_2[0] <= interval_1[1] /\ interval_1[0] <= interval_2[1]

RECURSIVE absorb(_, _, _)
\* The inner while loop of add_intervals: current takes in the neighbours it
\* intersects; yields <<current, i>>, i counted from 0.
absorb(list, i, current) ==
  IF i < Len(list) - 1 /\ intersects(current, list[i + 2])
    THEN absorb(list, i + 1, union(current, list[i + 2]))
    ELSE <<current, i>>

RECURSIVE merge_from(_, _, _)
\* The outer while loop of add_intervals, i counted from 0.
merge_from(list, i, merged) ==
  IF i < Len(list)
    THEN LET a == absorb(list, i, list[i + 1]) IN
         merge_from(list, a[2] + 1, Append(merged, a[1]))
    ELSE merged

\* The list add_intervals leaves in `intervals`.
add_intervals(list, interval) ==
  LET keys == [i \in 1..Len(list) |-> list[i][0]]
      index == bisect(keys, interval[0], 0, Len(keys))
  IN merge_from(ListInsert(list, index, interval), 0, <<>>)

\* ------------------------------------------------------------------------
\* sample_requests.py: ValidRequests.compressed_set
\* ------------------------------------------------------------------------

RANGE_DELTAS == 1

RECURSIVE sorted_codepoints(_)
\* sorted(codepoints)
sorted_codepoints(S) ==
  IF S = {} THEN <<>>
  ELSE LET least == CHOOSE x \in S : \A y \in S : x <= y IN
       <<least>> \o sorted_codepoints(S \ {least})

RECURSIVE range_deltas(_, _)
\* The loop of compressed_set: for each codepoint its delta, then 0.
range_deltas(ordered, last_cp) ==
  IF ordered = <<>> THEN <<>>
  ELSE <<Head(ordered) - last_cp, 0>> \o range_deltas(Tail(ordered), Head(ordered))

\* bytes(deltas): ValueError when an element is not in range(256).
to_bytes(deltas) ==
  IF \A i \in 1..Len(deltas) : deltas[i] \in 0..255
    THEN [status |-> "returned", value |-> deltas]
    ELSE [status |-> "raised", exception |-> "ValueError",
          message |-> "bytes must be in range(0, 256)"]

compressed_set(S) ==
  LET octets == to_bytes(range_deltas(sorted_codepoints(S), 0)) IN
  IF octets.status = "raised" THEN octets
  ELSE [status |-> "returned", value |-> (RANGE_DELTAS :> octets.value)]

\* ------------------------------------------------------------------------
\* response_checker.py: ResponseChecker.  `self` is the record of a session's
\* attributes.  A method is an operator from self and its arguments to
\*   [self |-> the attributes after the call, result |-> how the call ended]
\* where the result is returned (with its value), failed (an AssertionError
\* of the test case, with its message) or raised (any other exception).
\* Values that come out of the CBOR payload carry their Python type.
\* ------------------------------------------------------------------------

PROTOCOL_VERSION == 0

PATCH_FORMAT == 1

PATCH == 2

REPLACEMENT == 3

ORIGINAL_FONT_CHECKSUM == 4

PATCHED_CHECKSUM == 5

CODEPOINT_ORDERING == 6

ORDERING_CHECKSUM == 7

ORIGINAL_AXIS_SPACE == 9

VCDIFF == 0

BROTLI == 1

PATCH_FORMATS == {VCDIFF, BROTLI}

\* bytes([0x49, 0x46, 0x54, 0x20])
MAGIC == <<73, 70, 84, 32>>

None == [type |-> "none"]

IntValue(v) == [type |-> "int", value |-> v]

BytesValue(v) == [type |-> "bytes", value |-> v]

MapValue(v) == [type |-> "map", value |-> v]

\* return value
Returns(self, value) ==
  [self |-> self, result |-> [status |-> "returned", value |-> value]]

\* A failed assertion of the test case (assertTrue, assertEqual, fail, ...)
\* with the message it was given.
Fails(msg) ==
  [self |-> msg.self, result |-> [status |-> "failed", message |-> msg.message]]

\* An exception other than the test case's AssertionError leaves the method.
Throws(self, exception) ==
  [self |-> self, result |-> [status |-> "raised", exception |-> exception]]

\* tested(tag): tag is one id or a list of ids, here always a set.
tested(self, tags) == [self EXCEPT !.tested_ids = @ \cup tags]

\* conform_message(tag, message): records the ids, then builds the message,
\* which names the ids and the request URL.
conform_message(self, tags) ==
  [self |-> tested(self, tags),
   message |-> [conformance_id |-> tags, url |-> self.url]]

\* cbor2.loads on the payload: the payload is kept as the data item it
\* encodes, or as undecodable bytes.
loads(payload) ==
  IF payload.type = "invalid"
    THEN [status |-> "raised", exception |-> "CBORDecodeError"]
    ELSE [status |-> "returned", value |-> payload]

\* key in response
has(resp, key) == resp.type = "map" /\ key \in DOMAIN resp.value

\* The exception of response[key] when the key is not there.
subscript_error(resp) == IF resp.type = "map" THEN "KeyError" ELSE "IndexError"

response(self) ==
  IF self.response_obj = None
    THEN LET loaded == loads(self.response_data.payload)
             called == [self EXCEPT !.loads_calls = @ + 1]
         IN IF loaded.status = "raised" THEN Throws(called, loaded.exception)
            ELSE LET msg == conform_message([called EXCEPT !.response_obj = loaded.value],
                                            {"conform-object"})
                 IN IF loaded.value.type = "map" THEN Returns(msg.self, loaded.value)
                    ELSE Fails(msg)
    ELSE Returns(self, self.response_obj)

RECURSIVE HashesOf(_)
\* fast_hash.compute of each font of a set, as a table.
HashesOf(fonts) ==
  IF fonts = {} THEN <<>>
  ELSE LET font == CHOOSE f \in fonts : TRUE IN
       (font :> compute(font)) @@ HashesOf(fonts \ {font})

\* fast_hash.compute of the byte strings that are fonts here (the original
\* font, the subsets made from it, the empty base), computed once.
HashTable == HashesOf(UNION {[1..n -> {65, 66}] : n \in 0..3})

\* fast_hash.compute as the sessions call it: the table entry of a known
\* font, which is what compute yields for it.
fast_hash_compute(font_data) ==
  IF font_data \in DOMAIN HashTable THEN HashTable[font_data] ELSE compute(font_data)

\* checksum_matches that compares the hash of the data with itself.
checksum_matches_self(msg, font_data, expected_checksum) ==
  IF IntValue(fast_hash_compute(font_data)) = IntValue(fast_hash_compute(font_data))
    THEN Returns(msg.self, None)
    ELSE Fails(msg)

\* assertEqual(fast_hash.compute(data), expected_checksum, failure_message)
checksum_matches(msg, font_data, expected_checksum) ==
  IF IntValue(fast_hash_compute(font_data)) = expected_checksum THEN Returns(msg.self, None)
  ELSE Fails(msg)

patched_checksum_matches(self, font_data) ==
  LET got == response(self) IN
  IF got.result.status # "returned" THEN got
  ELSE IF ~has(got.result.value, PATCHED_CHECKSUM)
    THEN Throws(got.self, subscript_error(got.result.value))
  ELSE checksum_matches(conform_message(got.self, {"conform-response-patched-checksum"}),
                        font_data, got.result.value.value[PATCHED_CHECKSUM])

original_checksum_matches(self, font_data) ==
  LET got == response(self) IN
  IF got.result.status # "returned" THEN got
  ELSE IF ~has(got.result.value, ORIGINAL_FONT_CHECKSUM)
    THEN Throws(got.self, subscript_error(got.result.value))
  ELSE checksum_matches(conform_message(got.self, {"conform-response-original-checksum"}),
                        font_data, got.result.value.value[ORIGINAL_FONT_CHECKSUM])

integer_list_well_formed(self, int_list) ==
  LET maybe_err == decode(int_list.value)
      msg == conform_message(self, {"conform-uintbase128-illegal"})
  IN IF maybe_err.status = "raised" THEN Fails(msg) ELSE Returns(msg.self, None)

\* response_well_formed from "if PATCH in response or REPLACEMENT in response":
\* the three isinstance checks and original_checksum_matches.
font_checksums_well_formed(self, resp) ==
  IF ~has(resp, PATCH_FORMAT) THEN Throws(self, subscript_error(resp))
  ELSE LET msg == conform_message(self, {"conform-response-font-checksums"}) IN
  IF resp.value[PATCH_FORMAT].type # "int" THEN Fails(msg)
  ELSE IF ~has(resp, PATCHED_CHECKSUM) THEN Throws(msg.self, subscript_error(resp))
  ELSE IF resp.value[PATCHED_CHECKSUM].type # "int" THEN Fails(msg)
  ELSE IF ~has(resp, ORIGINAL_FONT_CHECKSUM) THEN Throws(msg.self, subscript_error(resp))
  ELSE IF resp.value[ORIGINAL_FONT_CHECKSUM].type # "int" THEN Fails(msg)
  ELSE original_checksum_matches(msg.self, self.original_font_bytes)

\* response_well_formed from "if CODEPOINT_ORDERING in response".
ordering_well_formed(self, resp) ==
  LET listed == integer_list_well_formed(self, resp.value[CODEPOINT_ORDERING]) IN
  IF listed.result.status # "returned" THEN listed
  ELSE IF ~has(resp, ORDERING_CHECKSUM) THEN Throws(listed.self, subscript_error(resp))
  ELSE LET msg == conform_message(listed.self, {"conform-response-ordering-checksum"}) IN
       IF resp.value[ORDERING_CHECKSUM].type = "int" THEN Returns(msg.self, None)
       ELSE Fails(msg)

response_well_formed(self) ==
  LET got == response(self) IN
  IF got.result.status # "returned" THEN got
  ELSE LET resp == got.result.value
           version_msg == conform_message(got.self, {"conform-response-protocol-version"})
           format_msg == IF has(resp, PATCH_FORMAT)
                           THEN conform_message(version_msg.self, {"conform-response-valid-format"})
                           ELSE version_msg
           both_msg == conform_message(format_msg.self, {"conform-response-patch-or-replacement"})
           checksums == IF has(resp, PATCH) \/ has(resp, REPLACEMENT)
                          THEN font_checksums_well_formed(both_msg.self, resp)
                          ELSE Returns(both_msg.self, None)
       IN
  IF ~has(resp, PROTOCOL_VERSION) THEN Fails(version_msg)
  ELSE IF resp.value[PROTOCOL_VERSION] # IntValue(0) THEN Fails(version_msg)
  ELSE IF has(resp, PATCH_FORMAT) /\ resp.value[PATCH_FORMAT].value \notin PATCH_FORMATS
    THEN Fails(format_msg)
  ELSE IF has(resp, PATCH) /\ has(resp, REPLACEMENT) THEN Fails(both_msg)
  ELSE IF checksums.result.status # "returned" THEN checksums
  ELSE IF has(resp, CODEPOINT_ORDERING) THEN ordering_well_formed(checksums.self, resp)
  ELSE Returns(checksums.self, None)

\* successful_response_checks without the magic number check.
successful_response_checks_no_magic(self) ==
  LET status_msg == conform_message(self, {"conform-successful-response"})
      well_formed == response_well_formed(status_msg.self)
  IN
  IF self.status_code # 200 THEN Fails(status_msg)
  ELSE IF well_formed.result.status # "returned" THEN well_formed
  ELSE Returns(well_formed.self, [type |-> "self"])

successful_response_checks(self) ==
  LET status_msg == conform_message(self, {"conform-successful-response"})
      magic_msg == conform_message(status_msg.self, {"conform-magic-number"})
      well_formed == response_well_formed(magic_msg.self)
  IN
  IF self.status_code # 200 THEN Fails(status_msg)
  ELSE IF self.response_data.magic # MAGIC THEN Fails(magic_msg)
  ELSE IF well_formed.result.status # "returned" THEN well_formed
  ELSE Returns(well_formed.self, [type |-> "self"])

axis_interval_well_formed(self, interval) ==
  LET start_msg == conform_message(self, {"conform-axis-interval-start"})
      end_msg == conform_message(start_msg.self, {"conform-axis-interval-end"})
  IN
  IF AXIS_START \notin DOMAIN interval THEN Fails(start_msg)
  ELSE IF AXIS_END \notin DOMAIN interval
    THEN Returns(tested(start_msg.self, {"conform-axis-interval-end"}), None)
  ELSE IF interval[AXIS_END] > interval[AXIS_START] THEN Returns(end_msg.self, None)
  ELSE Fails(end_msg)

RECURSIVE intervals_well_formed(_, _, _)
\* axis_space_well_formed: "for interval in intervals", from the i-th interval.
intervals_well_formed(self, list, i) ==
  IF i > Len(list) THEN Returns(self, None)
  ELSE LET checked == axis_interval_well_formed(self, list[i]) IN
       IF checked.result.status # "returned" THEN checked
       ELSE intervals_well_formed(checked.self, list, i + 1)

RECURSIVE intervals_disjoint(_, _, _)
\* axis_space_well_formed: "for i in range(len(sorted_intervals) - 1)", from
\* the i-th interval (counted from 1).
intervals_disjoint(self, sorted_intervals, i) ==
  IF i > Len(sorted_intervals) - 1 THEN Returns(self, None)
  ELSE IF AXIS_END \notin DOMAIN sorted_intervals[i] THEN Throws(self, "KeyError")
  ELSE LET msg == conform_message(self, {"conform-axis-space-disjoint"}) IN
       IF sorted_intervals[i][AXIS_END] < sorted_intervals[i + 1][AXIS_START]
         THEN intervals_disjoint(msg.self, sorted_intervals, i + 1)
         ELSE Fails(msg)

RECURSIVE axis_space_well_formed(_, _, _)
\* axis_space_well_formed: "for _, intervals in space.items()", from the k-th
\* item; the whole method is the loop from the first item.  The space is the
\* sequence of the dict's items <<tag, intervals>> in the order the dict
\* yields them.  With at most one interval the method returns.
axis_space_well_formed(self, items, k) ==
  IF k > Len(items) THEN Returns(self, None)
  ELSE LET formed == intervals_well_formed(self, items[k][2], 1)
           sorted_intervals == sorted_by_start(items[k][2])
           disjoint == intervals_disjoint(formed.self, sorted_intervals, 1)
       IN
       IF formed.result.status # "returned" THEN formed
       ELSE IF Len(sorted_intervals) <= 1
         THEN Returns(tested(formed.self, {"conform-axis-space-disjoint"}), None)
       ELSE IF disjoint.result.status # "returned" THEN disjoint
       ELSE axis_space_well_formed(disjoint.self, items, k + 1)

original_axis_space(self) ==
  LET got == response(self) IN
  IF got.result.status # "returned" THEN got
  ELSE IF ~has(got.result.value, ORIGINAL_AXIS_SPACE)
    THEN Throws(got.self, subscript_error(got.result.value))
  ELSE axis_space_well_formed(got.self, got.result.value.value[ORIGINAL_AXIS_SPACE].value, 1)

\* The mapping is {cp: idx for idx, cp in enumerate(mapping_list)}: a
\* codepoint listed more than once keeps its last index.
codepoint_mapping(self) ==
  LET got == response(self) IN
  IF got.result.status # "returned" THEN got
  ELSE IF ~has(got.result.value, CODEPOINT_ORDERING)
    THEN Throws(got.self, subscript_error(got.result.value))
  ELSE LET decoded == decode(got.result.value.value[CODEPOINT_ORDERING].value) IN
       IF decoded.status = "raised"
         THEN Fails(conform_message(got.self, {decoded.conformance_id}))
         ELSE Returns(got.self,
                      MapValue([cp \in {decoded.values[i] : i \in 1..Len(decoded.values)} |->
                                  CHOOSE idx \in 0..(Len(decoded.values) - 1) :
                                    /\ decoded.values[idx + 1] = cp
                                    /\ \A later \in (idx + 2)..Len(decoded.values) :
                                         decoded.values[later] # cp]))

\* The xdelta3 process "xdelta3 -f -d -s base patch subset": a patch is taken
\* to start with the VCDIFF magic octet 0xD6 and to append the octets after
\* it to the base; on any other patch xdelta3 exits with status 1.
xdelta3(base, patch) ==
  IF patch # <<>> /\ patch[1] = 214
    THEN [returncode |-> 0, output |-> base \o Tail(patch)]
    ELSE [returncode |-> 1, output |-> <<>>]

\* subprocess.run is called with check=True: a nonzero exit status raises
\* CalledProcessError.
decode_patch(self, base, patch, patch_format) ==
  IF patch_format = IntValue(VCDIFF)
    THEN LET result == xdelta3(base, patch)
             called == [self EXCEPT !.xdelta3_input =
                          [called |-> TRUE, base |-> base, patch |-> patch]]
             msg == conform_message(called, {"conform-response-valid-patch"})
         IN IF result.returncode # 0 THEN Throws(called, "CalledProcessError")
            ELSE IF result.returncode = 0
              THEN Returns(msg.self, BytesValue(result.output))
            ELSE Fails(msg)
    ELSE Fails([self |-> self, message |-> [conformance_id |-> {}, url |-> ""]])

\* font_util.codepoints: the codepoints of the font's cmap; a font is taken
\* to map the codepoints that are its octets.
font_codepoints(font_data) == {font_data[i] : i \in 1..Len(font_data)}

\* shaping_check.identical_shaping is true for no codepoints and else what the
\* shaper finds on random strings (same_shaping).
font_has_at_least_codepoints(self, font_data, subset, additional_conformance_ids, same_shaping) ==
  LET subset_msg == conform_message(self, {"conform-response-subset"} \cup additional_conformance_ids)
      shaping_msg == conform_message(subset_msg.self, {"conform-font-subset"})
  IN
  IF ~(subset \subseteq font_codepoints(font_data)) THEN Fails(subset_msg)
  ELSE IF ~(subset = {} \/ same_shaping) THEN Fails(shaping_msg)
  ELSE Returns(shaping_msg.self, None)

\* The base with the replacement test left out: always the session's base.
patch_base_own(self, resp) == self.base

\* check_apply_patch_to: the base the patch is applied to, "base = self.base"
\* and "base = bytes([])" under "if REPLACEMENT in response".
patch_base(self, resp) == IF has(resp, REPLACEMENT) THEN <<>> ELSE self.base

check_apply_patch_to(self, min_codepoints, additional_conformance_ids, same_shaping) ==
  LET got == response(self) IN
  IF got.result.status # "returned" THEN got
  ELSE LET resp == got.result.value
           replaces == has(resp, REPLACEMENT)
           base == patch_base(self, resp)
           patch == IF replaces THEN resp.value[REPLACEMENT] ELSE resp.value[PATCH]
           patched == decode_patch(got.self, base, patch.value, resp.value[PATCH_FORMAT])
           subset == patched.result.value.value
           covered == font_has_at_least_codepoints(patched.self, subset, min_codepoints,
                                                   additional_conformance_ids, same_shaping)
           summed == patched_checksum_matches(covered.self, subset)
       IN
  IF ~replaces /\ ~has(resp, PATCH) THEN Throws(got.self, subscript_error(resp))
  ELSE IF ~has(resp, PATCH_FORMAT) THEN Throws(got.self, subscript_error(resp))
  ELSE IF patched.result.status # "returned" THEN patched
  ELSE IF covered.result.status # "returned" THEN covered
  ELSE IF summed.result.status # "returned" THEN summed
  ELSE Returns(tested(summed.self, {"conform-vcdiff"}), BytesValue(subset))

\* self.response()[key], as in original_font_checksum() and ordering_checksum().
response_item(self, key) ==
  LET got == response(self) IN
  IF got.result.status # "returned" THEN got
  ELSE IF ~has(got.result.value, key) THEN Throws(got.self, subscript_error(got.result.value))
  ELSE Returns(got.self, got.result.value.value[key])

\* sample_requests.py: PatchRequest fields (ORDERING_CHECKSUM and
\* ORIGINAL_FONT_CHECKSUM of a request are not those of a response).
ACCEPT_PATCH_FORMAT == 1

CODEPOINTS_HAVE == 2

CODEPOINTS_NEEDED == 3

INDICES_HAVE == 4

INDICES_NEEDED == 5

REQUEST_ORDERING_CHECKSUM == 8

REQUEST_ORIGINAL_FONT_CHECKSUM == 9

BASE_CHECKSUM == 10

\* minimal_patch_request that writes the two checksums into each other's
\* field.
minimal_patch_request_swapped(base_codepoints, new_codepoints, original_checksum, base_checksum, ordering_checksum) ==
  LET have_set == compressed_set(base_codepoints)
      needed_set == compressed_set(new_codepoints)
      obj == (PROTOCOL_VERSION :> IntValue(0)) @@ (ACCEPT_PATCH_FORMAT :> <<VCDIFF>>)
               @@ (REQUEST_ORIGINAL_FONT_CHECKSUM :> base_checksum)
               @@ (BASE_CHECKSUM :> original_checksum)
  IN
  IF have_set.status = "raised" THEN have_set
  ELSE IF needed_set.status = "raised" THEN needed_set
  ELSE [status |-> "returned",
        value |-> IF ordering_checksum # None
                    THEN obj @@ (REQUEST_ORDERING_CHECKSUM :> ordering_checksum)
                             @@ (INDICES_HAVE :> have_set.value)
                             @@ (INDICES_NEEDED :> needed_set.value)
                    ELSE obj @@ (CODEPOINTS_HAVE :> have_set.value)
                             @@ (CODEPOINTS_NEEDED :> needed_set.value)]

\* ValidRequests.minimal_patch_request; the request is kept as the object
\* handed to dumps.
minimal_patch_request(base_codepoints, new_codepoints, original_checksum, base_checksum, ordering_checksum) ==
  LET have_set == compressed_set(base_codepoints)
      needed_set == compressed_set(new_codepoints)
      obj == (PROTOCOL_VERSION :> IntValue(0)) @@ (ACCEPT_PATCH_FORMAT :> <<VCDIFF>>)
               @@ (REQUEST_ORIGINAL_FONT_CHECKSUM :> original_checksum)
               @@ (BASE_CHECKSUM :> base_checksum)
  IN
  IF have_set.status = "raised" THEN have_set
  ELSE IF needed_set.status = "raised" THEN needed_set
  ELSE [status |-> "returned",
        value |-> IF ordering_checksum # None
                    THEN obj @@ (REQUEST_ORDERING_CHECKSUM :> ordering_checksum)
                             @@ (INDICES_HAVE :> have_set.value)
                             @@ (INDICES_NEEDED :> needed_set.value)
                    ELSE obj @@ (CODEPOINTS_HAVE :> have_set.value)
                             @@ (CODEPOINTS_NEEDED :> needed_set.value)]

\* ResponseChecker.__init__ on the response the server gave.  loads_calls
\* counts the cbor2.loads calls of the session and xdelta3_input keeps what
\* decode_patch last wrote to the base and patch files.
ResponseChecker(served, original_font_bytes) ==
  [status_code |-> served.status,
   response_data |-> served.read,
   response_obj |-> None,
   url |-> served.url,
   tested_ids |-> {},
   original_font_bytes |-> original_font_bytes,
   base |-> <<>>,
   loads_calls |-> 0,
   xdelta3_input |-> [called |-> FALSE, base |-> <<>>, patch |-> <<>>]]

\* extend up to the request: the result is the request and the base the new
\* session is given.  A codepoint of the font is looked up in codepoint_map
\* under the key codepoint_mapping made for it.
extend(self, new_codepoints, codepoint_map, override_reordering_checksum, override_original_checksum, override_base_checksum) ==
  \* A local variable: `value` is computed once, where the assignment stands,
  \* and the statements after it read it as `rest` does.
  LET assigned(value, rest(_)) == rest(value) IN
  assigned(check_apply_patch_to(self, {}, {}, TRUE), LAMBDA applied :
    IF applied.result.status # "returned" THEN applied
    ELSE
  assigned(applied.result.value.value, LAMBDA base :
  assigned(IF override_base_checksum = None THEN IntValue(fast_hash_compute(base))
           ELSE override_base_checksum, LAMBDA base_checksum :
  assigned(IF override_original_checksum = None
             THEN response_item(applied.self, ORIGINAL_FONT_CHECKSUM)
             ELSE Returns(applied.self, override_original_checksum), LAMBDA original :
    IF original.result.status # "returned" THEN original
    ELSE
  assigned(check_apply_patch_to(original.self, {}, {}, TRUE), LAMBDA again :
    IF again.result.status # "returned" THEN again
    ELSE
  assigned(font_codepoints(again.result.value.value), LAMBDA base_codepoints :
  assigned(IF codepoint_map # None THEN response_item(again.self, ORDERING_CHECKSUM)
           ELSE Returns(again.self, None), LAMBDA ordering :
    IF ordering.result.status # "returned" THEN ordering
    ELSE
  assigned(IF override_reordering_checksum # None THEN override_reordering_checksum
           ELSE ordering.result.value, LAMBDA ordering_checksum :
  assigned(codepoint_map # None /\ DOMAIN codepoint_map.value # {}, LAMBDA remapped :
    IF remapped /\ \E cp \in base_codepoints \cup new_codepoints :
                     WideOf(cp) \notin DOMAIN codepoint_map.value
      THEN Throws(ordering.self, "KeyError")
    ELSE
  assigned(minimal_patch_request(
             IF remapped THEN {codepoint_map.value[WideOf(cp)] : cp \in base_codepoints}
             ELSE base_codepoints,
             IF remapped THEN {codepoint_map.value[WideOf(cp)] : cp \in new_codepoints}
             ELSE new_codepoints,
             original.result.value, base_checksum, ordering_checksum), LAMBDA request :
    IF request.status = "raised" THEN Throws(ordering.self, request.exception)
    ELSE Returns(ordering.self,
                 [type |-> "request", value |-> request.value, base |-> base])))))))))))

\* tested_ids kept in one set for all sessions: every session there is sees
\* the ids of the one that was called.
store_shared_ids(all, sid, self) ==
  [s \in DOMAIN all |->
     IF s = sid THEN self
     ELSE IF all[s] = None THEN all[s]
     ELSE [all[s] EXCEPT !.tested_ids = self.tested_ids]]

\* The session attributes after a method on session sid left them as self.
store(all, sid, self) == [all EXCEPT ![sid] = self]

\* ------------------------------------------------------------------------
\* Specification of integer_list.decode: one call on one byte stream
\* ------------------------------------------------------------------------

\* Octets the streams are made of: terminal octets 0x00 0x01 0x7F and
\* continuation octets 0x80 0x8F 0xFF.
ByteAlphabet == {0, 1, 127, 128, 143, 255}

\* The vectors of test_integer_list_decode_matches_spec.
DecodeVectorOk == <<46, 40, 61, 17, 129, 0, 2, 2, 129, 9>>

DecodeVectorLeadingZero == <<128, 1>>

DecodeVectorSixOctets == <<129, 128, 128, 128, 128, 0>>

DecodeVectorOverflow == <<255, 255, 255, 255, 1>>

DecodeVectors ==
  {DecodeVectorOk, DecodeVectorLeadingZero, DecodeVectorSixOctets, DecodeVectorOverflow}

Streams ==
  (UNION {[1..n -> ByteAlphabet] : n \in 0..MaxStreamLen}) \cup DecodeVectors

IdleIntegerList ==
  /\ encoded_bytes = <<>>
  /\ decode_result = Pending

IdleFastHash ==
  /\ data = <<>>
  /\ hash_result = Pending

\* The axis space with no tag: {}.
EmptySpace == [tag \in {} |-> <<>>]

IdleAxis ==
  /\ space_1 = EmptySpace
  /\ space_2 = EmptySpace
  /\ equal_result = Pending

IdleIntervals ==
  /\ intervals = <<>>
  /\ inserted = <<>>

IdleCompressedSet ==
  /\ codepoints = {}
  /\ compressed = Pending

\* The session of the first request and the one returned by its extend.
SessionIds == {1, 2}

\* No session yet.
NoSession == None

\* No method called yet.
NoCall == [number |-> 0, session |-> 0, method |-> "none", arguments |-> <<>>, result |-> Pending]

IdleChecker ==
  /\ sessions = [sid \in SessionIds |-> NoSession]
  /\ last_call = NoCall
  /\ requests = <<>>

InitIntegerList ==
  /\ encoded_bytes \in Streams
  /\ decode_result = Pending
  /\ IdleFastHash /\ IdleAxis /\ IdleIntervals /\ IdleCompressedSet /\ IdleChecker

Decode ==
  /\ decode_result = Pending
  /\ decode_result' = decode(encoded_bytes)
  /\ UNCHANGED <<encoded_bytes, fast_hash_vars, axis_vars, interval_vars, compressed_set_vars,
                 checker_vars>>

NextIntegerList == Decode

SpecIntegerList == InitIntegerList /\ [][NextIntegerList]_vars

\* ------------------------------------------------------------------------
\* The UIntBase128 grammar, read off the stream without the decoder
\* ------------------------------------------------------------------------

\* Positions of the octets that end a value (high bit clear).
Terminals(eb) == {i \in 1..Len(eb) : eb[i] < 128}

SetMax(S) == CHOOSE m \in S : \A x \in S : x <= m

\* First octet of the value that holds position i.
ValueStart(eb, i) == 1 + SetMax({0} \cup {j \in Terminals(eb) : j < i})

\* The complete values of the stream, as <<first, last>> positions.
CompleteValues(eb) == {<<ValueStart(eb, i), i>> : i \in Terminals(eb)}

\* The stream ends inside a value: its last octet has the continuation bit.
EndsInsideValue(eb) == Len(eb) > 0 /\ eb[Len(eb)] >= 128

RECURSIVE Magnitude(_, _, _)
\* The big-endian base 128 magnitude of the octets first..last.
Magnitude(eb, first, last) ==
  IF last < first THEN <<0, 0>>
  ELSE LET rest == Magnitude(eb, first, last - 1) IN
       WNorm(rest[1] * 128, rest[2] * 128 + (eb[last] % 128))

\* A magnitude of at most 2^32 - 1.
FitsUint32(m) == m[1] < WideBase

WellFormedValue(eb, v) ==
  /\ v[2] - v[1] + 1 <= 5
  /\ eb[v[1]] # 128
  /\ FitsUint32(Magnitude(eb, v[1], v[2]))

WellFormedStream(eb) ==
  /\ ~EndsInsideValue(eb)
  /\ \A v \in CompleteValues(eb) : WellFormedValue(eb, v)

\* zigzag(v) = -((v + 1) / 2) if v is odd, else v / 2.
ZigZag(m) ==
  IF m[2] % 2 = 1
    THEN LET h == WHalf(WAdd(m, <<0, 1>>)) IN WNorm(-h[1], -h[2])
    ELSE WHalf(m)

RECURSIVE SumOfDeltas(_, _)
\* The sum of the zigzag-decoded magnitudes of the complete values that end at
\* or before position `upto`.
SumOfDeltas(eb, upto) ==
  LET before == {v \in CompleteValues(eb) : v[2] <= upto} IN
  IF before = {} THEN <<0, 0>>
  ELSE LET lastv == CHOOSE v \in before : \A w \in before : w[2] <= v[2] IN
       WAdd(ZigZag(Magnitude(eb, lastv[1], lastv[2])), SumOfDeltas(eb, lastv[1] - 1))

\* The i-th terminal position, in stream order.
NthTerminal(eb, i) ==
  CHOOSE t \in Terminals(eb) : Cardinality({u \in Terminals(eb) : u <= t}) = i

ExpectedValues(eb) ==
  [i \in 1..Cardinality(Terminals(eb)) |-> SumOfDeltas(eb, NthTerminal(eb, i))]

\* C1: every concatenation of well-formed values decodes, to one element per
\* value, element i being the sum of the zigzag-decoded magnitudes 0..i; the
\* empty stream decodes to the empty sequence and the vector of the test to
\* [23, 43, 12, 3, 67, 68, 69, 0].
C1_DecodeWellFormed ==
  decode_result # Pending =>
    /\ WellFormedStream(encoded_bytes) =>
         /\ decode_result.status = "returned"
         /\ decode_result.values = ExpectedValues(encoded_bytes)
    /\ encoded_bytes = <<>> =>
         /\ decode_result.status = "returned"
         /\ decode_result.values = <<>>
    /\ encoded_bytes = DecodeVectorOk =>
         /\ decode_result.status = "returned"
         /\ decode_result.values =
              <<WideOf(23), WideOf(43), WideOf(12), WideOf(3),
                WideOf(67), WideOf(68), WideOf(69), WideOf(0)>>

\* The largest magnitude, 2^32 - 1 in five octets, decodes to -2^31.
C1_Witness ==
  /\ encoded_bytes = <<143, 255, 255, 255, 127>>
  /\ WellFormedStream(encoded_bytes)
  /\ decode_result.status = "returned"
  /\ decode_result.values = <<WNorm(-32768, 0)>>

\* A value of the stream that the grammar forbids: first octet 0x80, more than
\* 5 octets, or a magnitude above 2^32 - 1.
IllegalRun(eb, first, last, complete) ==
  \/ eb[first] = 128
  \/ (complete /\ last - first + 1 > 5)
  \/ (~complete /\ last - first + 1 >= 5)
  \/ (complete /\ last - first + 1 <= 5 /\ ~FitsUint32(Magnitude(eb, first, last)))

HasIllegalValue(eb) ==
  \/ \E v \in CompleteValues(eb) : IllegalRun(eb, v[1], v[2], TRUE)
  \/ (EndsInsideValue(eb) /\ IllegalRun(eb, ValueStart(eb, Len(eb)), Len(eb), FALSE))

Raised(result) ==
  /\ result.status = "raised"
  /\ result.conformance_id = "conform-uintbase128-illegal"

\* C2: decode raises ConformanceException (conform-uintbase128-illegal) for
\* every stream holding a value that starts with 0x80, runs for more than 5
\* octets or exceeds 2^32 - 1, the three vectors of the test among them, and
\* no value of a stream it accepts has a magnitude above 2^32 - 1.
C2_DecodeRejectsIllegal ==
  decode_result # Pending =>
    /\ HasIllegalValue(encoded_bytes) => Raised(decode_result)
    /\ encoded_bytes \in {DecodeVectorLeadingZero, DecodeVectorSixOctets,
                          DecodeVectorOverflow} => Raised(decode_result)
    /\ decode_result.status = "returned" =>
         \A v \in CompleteValues(encoded_bytes) :
           FitsUint32(Magnitude(encoded_bytes, v[1], v[2]))

\* Four octets of ones leave bits 25..27 set: the fifth octet is refused.
C2_Witness ==
  /\ encoded_bytes = <<255, 255, 255, 255, 1>>
  /\ HasIllegalValue(encoded_bytes)
  /\ Raised(decode_result)
  /\ decode_result.message = "UIntBase128 exceeds 2^32-1."

\* C3: a stream that ends inside a value raises the same ConformanceException,
\* and the outcome of decode is the full sequence or an error: a raised decode
\* carries no values, a returned one carries one element per value.
C3_DecodeAllOrNothing ==
  decode_result # Pending =>
    /\ EndsInsideValue(encoded_bytes) => Raised(decode_result)
    /\ decode_result.status \in {"returned", "raised"}
    /\ decode_result.status = "raised" => decode_result.values = <<>>
    /\ decode_result.status = "returned" =>
         Len(decode_result.values) = Cardinality(Terminals(encoded_bytes))

\* Two complete values, then a value cut short: nothing of the two comes back.
C3_Witness ==
  /\ encoded_bytes = <<0, 1, 143>>
  /\ Raised(decode_result)
  /\ decode_result.message = "Out of bounds read."
  /\ decode_result.values = <<>>

\* ------------------------------------------------------------------------
\* Specification of fast_hash.compute: one call on one byte sequence
\* ------------------------------------------------------------------------

\* Longest sequence among those drawn octet by octet from HashAlphabet.
MaxShortDataLen == 6

\* Longest prefix of the fixed pattern (two full chunks and a tail at 17).
MaxDataLen == 17

HashAlphabet == {0, 90, 255}

PatternPrefix(n) == [i \in 1..n |-> (i * 37 + 11) % 256]

\* The vectors of test_our_hash_matches_spec.
HashVector4 == <<15, 123, 90, 229>>

HashVector11 == <<29, 244, 2, 94, 211, 184, 67, 33, 59, 174, 222>>

HashInputs ==
  (UNION {[1..n -> HashAlphabet] : n \in 0..MaxShortDataLen})
    \cup {PatternPrefix(n) : n \in 0..MaxDataLen}
    \cup {HashVector4, HashVector11}

InitFastHash ==
  /\ data \in HashInputs
  /\ hash_result = Pending
  /\ IdleIntegerList /\ IdleAxis /\ IdleIntervals /\ IdleCompressedSet /\ IdleChecker

Compute ==
  /\ hash_result = Pending
  /\ hash_result' = [status |-> "returned", value |-> compute(data)]
  /\ UNCHANGED <<data, integer_list_vars, axis_vars, interval_vars, compressed_set_vars,
                 checker_vars>>

NextFastHash == Compute

SpecFastHash == InitFastHash /\ [][NextFastHash]_vars

\* The reference algorithm, as the fast hash is specified.
RefMix(x) ==
  LET x1 == Xor64(x, Shr64(x, 23))
      x2 == uint64_mul(x1, MixMultiplier)
  IN Xor64(x2, Shr64(x2, 47))

\* The k-th full 8 octet chunk, little endian.
RefChunk(d, k) == [i \in 1..8 |-> d[8 * (k - 1) + i]]

\* The trailing octets after the full chunks, zero padded on the high end.
RefTail(d) ==
  [i \in 1..8 |-> IF i <= Len(d) % 8 THEN d[8 * (Len(d) \div 8) + i] ELSE 0]

RECURSIVE RefH(_, _)
\* h after k full chunks.
RefH(d, k) ==
  IF k = 0 THEN Xor64(SEED, uint64_mul(WordOfLen(Len(d)), M))
  ELSE uint64_mul(Xor64(RefH(d, k - 1), RefMix(RefChunk(d, k))), M)

RefCompute(d) ==
  LET h == RefH(d, Len(d) \div 8) IN
  IF Len(d) % 8 = 0 THEN RefMix(h)
  ELSE RefMix(uint64_mul(Xor64(h, RefMix(RefTail(d))), M))

IsUint64(w) == Len(w) = 8 /\ \A i \in 1..8 : w[i] \in 0..255

\* C4: compute returns the value of the reference algorithm (full chunks only,
\* mix(h) for a length that is a multiple of 8, the zero padded tail otherwise),
\* always a 64 bit value, and the two vectors of the specification hash to
\* 0xe5e0d1dc89eaa189 and 0xb31e9c70768205fb.
C4_HashMatchesReference ==
  hash_result # Pending =>
    /\ hash_result.value = RefCompute(data)
    /\ IsUint64(hash_result.value)
    /\ data = HashVector4 =>
         hash_result.value = <<137, 161, 234, 137, 220, 209, 224, 229>>
    /\ data = HashVector11 =>
         hash_result.value = <<251, 5, 130, 118, 112, 156, 30, 179>>

\* The 11 octet vector: one full chunk and a tail of three.
C4_Witness ==
  /\ data = HashVector11
  /\ hash_result # Pending
  /\ hash_result.value = <<251, 5, 130, 118, 112, 156, 30, 179>>

\* ------------------------------------------------------------------------
\* Specification of axis_util.axis_space_equal: one call on two axis spaces
\* ------------------------------------------------------------------------

\* Most intervals an axis space holds, over all its tags.
MaxAxisIntervals == 2

Tags == {"wght", "wdth"}

\* A point, the same point written as a degenerate range, a range that starts
\* where the point lies, and two points elsewhere.
IntervalUniverse == {Point(1), Range(1, 1), Range(1, 2), Point(2), Point(3)}

IntervalLists == UNION {[1..n -> IntervalUniverse] : n \in 0..MaxAxisIntervals}

RECURSIVE TotalIntervals(_, _)
TotalIntervals(space, tags) ==
  IF tags = {} THEN 0
  ELSE LET tag == CHOOSE t \in tags : TRUE IN
       Len(space[tag]) + TotalIntervals(space, tags \ {tag})

AxisSpaces ==
  {space \in UNION {[T -> IntervalLists] : T \in SUBSET Tags} :
     TotalIntervals(space, DOMAIN space) <= MaxAxisIntervals}

InitAxis ==
  /\ space_1 \in AxisSpaces
  /\ space_2 \in AxisSpaces
  /\ equal_result = Pending
  /\ IdleIntegerList /\ IdleFastHash /\ IdleIntervals /\ IdleCompressedSet /\ IdleChecker

AxisSpaceEqual ==
  /\ equal_result = Pending
  /\ equal_result' = [status |-> "returned", value |-> axis_space_equal(space_1, space_2)]
  /\ UNCHANGED <<space_1, space_2, integer_list_vars, fast_hash_vars, interval_vars,
                 compressed_set_vars, checker_vars>>

NextAxis == AxisSpaceEqual

SpecAxis == InitAxis /\ [][NextAxis]_vars

\* list_2 holds the elements of list_1 in some order.
IsPermutation(list_1, list_2) ==
  /\ Len(list_1) = Len(list_2)
  /\ \E p \in [1..Len(list_1) -> 1..Len(list_1)] :
       /\ \A i, j \in 1..Len(list_1) : i # j => p[i] # p[j]
       /\ \A i \in 1..Len(list_1) : list_2[i] = list_1[p[i]]

\* b is a with the interval list of some tags permuted.
PermutedSpace(a, b) ==
  /\ DOMAIN a = DOMAIN b
  /\ \A tag \in DOMAIN a : IsPermutation(a[tag], b[tag])

\* No two intervals of one tag start at the same value (true of every list of
\* pairwise disjoint intervals).
DistinctStarts(space) ==
  \A tag \in DOMAIN space :
    \A i, j \in 1..Len(space[tag]) :
      i # j => space[tag][i][AXIS_START] # space[tag][j][AXIS_START]

\* C5 as stated: every space compares equal to each of its permutations.
C5_Original ==
  (equal_result # Pending /\ PermutedSpace(space_1, space_2)) => equal_result.value

\* C5, amended: axis_space_equal is insensitive to the order of the intervals
\* of a tag when the intervals of each tag have pairwise distinct start values:
\* such a space compares equal to each space obtained by permuting its lists.
C5_OrderInsensitive ==
  (equal_result # Pending /\ PermutedSpace(space_1, space_2) /\ DistinctStarts(space_1))
    => equal_result.value

\* A range and a point in the two orders compare equal.
C5_Witness ==
  /\ equal_result # Pending
  /\ space_1 = [tag \in {"wght"} |-> <<Point(2), Range(1, 2)>>]
  /\ space_2 = [tag \in {"wght"} |-> <<Range(1, 2), Point(2)>>]
  /\ DistinctStarts(space_1)
  /\ equal_result.value

\* C6: axis_space_equal is reflexive and symmetric.
C6_ReflexiveSymmetric ==
  equal_result # Pending =>
    /\ equal_result.value = axis_space_equal(space_2, space_1)
    /\ axis_space_equal(space_1, space_1)
    /\ axis_space_equal(space_2, space_2)

\* Two spaces of one tag each, of different tags: unequal in both directions.
C6_Witness ==
  /\ equal_result # Pending
  /\ DOMAIN space_1 = {"wght"}
  /\ DOMAIN space_2 = {"wght", "wdth"}
  /\ ~equal_result.value
  /\ ~axis_space_equal(space_2, space_1)

\* A point, in either of its two writings.
IsPoint(interval) ==
  AXIS_END \in DOMAIN interval => interval[AXIS_END] = interval[AXIS_START]

\* The two intervals are the same, or the same point written in two ways.
SameUpToPointForm(i1, i2) ==
  \/ i1 = i2
  \/ (IsPoint(i1) /\ IsPoint(i2) /\ i1[AXIS_START] = i2[AXIS_START])

\* The two spaces differ only in how points are written.
DifferOnlyInPointForm(a, b) ==
  /\ DOMAIN a = DOMAIN b
  /\ \A tag \in DOMAIN a :
       /\ Len(a[tag]) = Len(b[tag])
       /\ \A i \in 1..Len(a[tag]) : SameUpToPointForm(a[tag][i], b[tag][i])

IntervalsOf(space) == UNION {{space[tag][i] : i \in 1..Len(space[tag])} : tag \in DOMAIN space}

\* C7: spaces that differ only in writing a point as {start: s} or as
\* {start: s, end: s} compare equal; normalize_interval maps both writings to
\* {start: s}, is idempotent and leaves an interval with end # start unchanged.
C7_PointForm ==
  equal_result # Pending =>
    /\ DifferOnlyInPointForm(space_1, space_2) => equal_result.value
    /\ \A interval \in IntervalsOf(space_1) \cup IntervalsOf(space_2) :
         /\ normalize_interval(normalize_interval(interval)) = normalize_interval(interval)
         /\ IsPoint(interval) => normalize_interval(interval) = Point(interval[AXIS_START])
         /\ ~IsPoint(interval) => normalize_interval(interval) = interval

\* {start: 1} against {start: 1, end: 1}, beside a proper range.
C7_Witness ==
  /\ equal_result # Pending
  /\ space_1 = [tag \in {"wght"} |-> <<Point(1), Range(1, 2)>>]
  /\ space_2 = [tag \in {"wght"} |-> <<Range(1, 1), Range(1, 2)>>]
  /\ equal_result.value

\* The values an interval covers, on a grid of half units: 2 * start for a
\* point, 2 * start .. 2 * end for a range.
CoveredBy(interval) ==
  IF AXIS_END \in DOMAIN interval
    THEN (2 * interval[AXIS_START])..(2 * interval[AXIS_END])
    ELSE {2 * interval[AXIS_START]}

Covered(list) == UNION {CoveredBy(list[i]) : i \in 1..Len(list)}

\* C8: axis_space_equal is false for two spaces whose tag sets differ, or in
\* which a common tag covers different sets of values.
C8_DifferentSpacesUnequal ==
  equal_result # Pending =>
    /\ DOMAIN space_1 # DOMAIN space_2 => ~equal_result.value
    /\ (\E tag \in DOMAIN space_1 \cap DOMAIN space_2 :
          Covered(space_1[tag]) # Covered(space_2[tag])) => ~equal_result.value

\* Same tags, same starts, but one range is a point on the other side.
C8_Witness ==
  /\ equal_result # Pending
  /\ space_1 = [tag \in {"wght"} |-> <<Point(1)>>]
  /\ space_2 = [tag \in {"wght"} |-> <<Range(1, 2)>>]
  /\ ~equal_result.value

\* ------------------------------------------------------------------------
\* Specification of font_util.add_intervals: calls on one list, from empty
\* ------------------------------------------------------------------------

\* Most add_intervals calls on the list.
MaxInserts == 3

\* Largest axis value of an inserted interval.
MaxAxisValue == 3

\* The intervals axis_space hands over: {0: minValue, 1: maxValue}, min <= max.
InsertChoices ==
  {(0 :> lo) @@ (1 :> hi) : <<lo, hi>> \in {c \in (0..MaxAxisValue) \X (0..MaxAxisValue) : c[1] <= c[2]}}

InitIntervals ==
  /\ intervals = <<>>
  /\ inserted = <<>>
  /\ IdleIntegerList /\ IdleFastHash /\ IdleAxis /\ IdleCompressedSet /\ IdleChecker

AddIntervals ==
  /\ Len(inserted) < MaxInserts
  /\ \E interval \in InsertChoices :
       /\ intervals' = add_intervals(intervals, interval)
       /\ inserted' = Append(inserted, interval)
  /\ UNCHANGED <<integer_list_vars, fast_hash_vars, axis_vars, compressed_set_vars,
                 checker_vars>>

NextIntervals == AddIntervals

SpecIntervals == InitIntervals /\ [][NextIntervals]_vars

RECURSIVE AddAll(_, _)
\* add_intervals called with each interval of `order` in turn.
AddAll(list, order) ==
  IF order = <<>> THEN list
  ELSE AddAll(add_intervals(list, Head(order)), Tail(order))

\* Every order in which the inserted intervals can be handed over.
Orders(seq) ==
  {[i \in 1..Len(seq) |-> seq[p[i]]] :
     p \in {q \in [1..Len(seq) -> 1..Len(seq)] :
              \A i, j \in 1..Len(seq) : i # j => q[i] # q[j]}}

\* C9: add_intervals is order independent: inserting the same intervals
\* (start <= end) into an empty list in any other order gives the same list.
C9_OrderIndependent ==
  \A order \in Orders(inserted) : AddAll(<<>>, order) = intervals

\* Three intervals, the last bridging the first two, merged into one.
C9_Witness ==
  /\ inserted = <<(0 :> 0) @@ (1 :> 1), (0 :> 2) @@ (1 :> 3), (0 :> 1) @@ (1 :> 2)>>
  /\ intervals = <<(0 :> 0) @@ (1 :> 3)>>

\* Axis values at half-unit steps, doubled: every endpoint an interval can
\* have and every value strictly between two neighbouring endpoints.
HalfGrid == 0..(2 * MaxAxisValue + 2)

\* The interval holds the axis value h / 2.
Holds(interval, h) == 2 * interval[0] <= h /\ h <= 2 * interval[1]

\* C16: after any sequence of add_intervals calls from the empty list with
\* intervals of start <= end, the list is sorted by start, no two of its
\* intervals intersect or touch, and the values it covers are exactly those
\* of the inserted intervals.
C16_SortedDisjointUnion ==
  /\ \A i \in 1..(Len(intervals) - 1) : intervals[i][0] < intervals[i + 1][0]
  /\ \A i, j \in 1..Len(intervals) :
       i < j => (intervals[i][1] < intervals[j][0] \/ intervals[j][1] < intervals[i][0])
  /\ \A h \in HalfGrid :
       (\E i \in 1..Len(intervals) : Holds(intervals[i], h))
         <=> (\E k \in 1..Len(inserted) : Holds(inserted[k], h))

\* Two touching intervals, merged into one.
C16_Witness ==
  /\ inserted = <<(0 :> 0) @@ (1 :> 1), (0 :> 1) @@ (1 :> 2)>>
  /\ intervals = <<(0 :> 0) @@ (1 :> 2)>>

\* ------------------------------------------------------------------------
\* Specification of ValidRequests.compressed_set: one call on one set
\* ------------------------------------------------------------------------

\* Most codepoints in the set.
MaxCodepoints == 3

\* Codepoints with gaps below 128, from 128 to 255, and above 255.
CodepointUniverse == {0, 1, 2, 65, 66, 127, 128, 200, 300, 600}

InitCompressedSet ==
  /\ codepoints \in {S \in SUBSET CodepointUniverse : Cardinality(S) <= MaxCodepoints}
  /\ compressed = Pending
  /\ IdleIntegerList /\ IdleFastHash /\ IdleAxis /\ IdleIntervals /\ IdleChecker

CompressedSet ==
  /\ compressed = Pending
  /\ compressed' = compressed_set(codepoints)
  /\ UNCHANGED <<codepoints, integer_list_vars, fast_hash_vars, axis_vars, interval_vars,
                 checker_vars>>

NextCompressedSet == CompressedSet

SpecCompressedSet == InitCompressedSet /\ [][NextCompressedSet]_vars

\* A wide integer that fits TLC's integers, as an integer.
WInt(w) == w[1] * WideBase + w[2]

\* The set that decoded range deltas stand for: the values are the running
\* sums of (gap, length) pairs, so each pair of them is a range first..last.
Reconstruct(values) ==
  UNION {WInt(values[2 * i - 1])..WInt(values[2 * i]) : i \in 1..(Len(values) \div 2)}

\* C10 as stated: for every non-empty set S, compressed_set(S) succeeds and its
\* range deltas, decoded with integer_list.decode and read as (gap, 0) pairs,
\* reconstruct exactly S.
C10_RoundTrip ==
  (compressed # Pending /\ codepoints # {}) =>
    /\ compressed.status = "returned"
    /\ LET decoded == decode(compressed.value[RANGE_DELTAS]) IN
       /\ decoded.status = "returned"
       /\ Len(decoded.values) = 2 * Cardinality(codepoints)
       /\ Reconstruct(decoded.values) = codepoints

\* ------------------------------------------------------------------------
\* Specification of ResponseChecker: method calls, in any order, on the
\* session of a first request and on the session its extend returns
\* ------------------------------------------------------------------------

\* Most method calls in one run.
MaxCalls == 3

\* The font the test case was set up with; it maps the codepoints 65 and 66.
OriginalFont == <<65, 66>>

\* A field of a response map: absent (<<>>) or present with a value (<<v>>).
Field(key, option) ==
  IF option = <<>> THEN [k \in {} |-> None] ELSE (key :> option[1])

\* The response maps with each field drawn from its options.
ResponseMaps(versions, formats, patches, replacements, originals, patcheds, orderings, sums) ==
  {MapValue(Field(PROTOCOL_VERSION, o[1]) @@ Field(PATCH_FORMAT, o[2]) @@ Field(PATCH, o[3])
            @@ Field(REPLACEMENT, o[4]) @@ Field(ORIGINAL_FONT_CHECKSUM, o[5])
            @@ Field(PATCHED_CHECKSUM, o[6]) @@ Field(CODEPOINT_ORDERING, o[7])
            @@ Field(ORDERING_CHECKSUM, o[8])) :
     o \in versions \X formats \X patches \X replacements \X originals \X patcheds
             \X orderings \X sums}

\* A checksum that is the hash of none of the fonts here.
WrongChecksum == IntValue(<<210, 4, 0, 0, 0, 0, 0, 0>>)

\* Payloads whose well-formedness is checked: every combination of the
\* fields absent, right and wrong, and payloads that are no map: an array,
\* null, no CBOR.
CheckedPayloads ==
  ResponseMaps({<<>>, <<IntValue(0)>>, <<IntValue(1)>>},
               {<<>>, <<IntValue(VCDIFF)>>, <<IntValue(BROTLI)>>, <<IntValue(2)>>},
               {<<>>, <<BytesValue(<<214, 65>>)>>},
               {<<>>, <<BytesValue(<<214, 65>>)>>},
               {<<>>, <<IntValue(fast_hash_compute(OriginalFont))>>, <<WrongChecksum>>},
               {<<>>, <<IntValue(fast_hash_compute(<<65>>))>>, <<BytesValue(<<1>>)>>},
               {<<>>, <<BytesValue(<<1, 2>>)>>, <<BytesValue(<<128, 1>>)>>},
               {<<>>, <<WrongChecksum>>})
    \cup {[type |-> "list", value |-> <<>>], None, [type |-> "invalid"]}

\* The responses whose well-formedness is checked.
CheckedResponses ==
  {[status |-> code, read |-> [magic |-> magic, payload |-> payload], url |-> "first"] :
     code \in {200, 400}, magic \in {MAGIC, <<73, 70, 84, 33>>}, payload \in CheckedPayloads}

\* The responses to a first request that carry font data: a patch (sound or
\* corrupt), a replacement, both or neither, in either format, with a right
\* or wrong patched_checksum, with or without a codepoint_ordering.
FirstResponses ==
  {[status |-> 200, read |-> [magic |-> MAGIC, payload |-> payload], url |-> "first"] :
     payload \in ResponseMaps({<<IntValue(0)>>}, {<<IntValue(VCDIFF)>>, <<IntValue(BROTLI)>>},
                              {<<>>, <<BytesValue(<<214, 65>>)>>, <<BytesValue(<<0>>)>>},
                              {<<>>, <<BytesValue(<<214, 65>>)>>},
                              {<<IntValue(fast_hash_compute(OriginalFont))>>},
                              {<<IntValue(fast_hash_compute(<<65>>))>>, <<WrongChecksum>>},
                              {<<>>, <<BytesValue(<<1, 2>>)>>},
                              {<<WrongChecksum>>})}

\* The responses to the request of extend: a patch on the first subset, a
\* replacement, both or neither, with the checksum of either result.
ExtendResponses ==
  {[status |-> 200, read |-> [magic |-> MAGIC, payload |-> payload], url |-> "extend"] :
     payload \in ResponseMaps({<<IntValue(0)>>}, {<<IntValue(VCDIFF)>>},
                              {<<>>, <<BytesValue(<<214, 66>>)>>},
                              {<<>>, <<BytesValue(<<214, 65>>)>>},
                              {<<IntValue(fast_hash_compute(OriginalFont))>>},
                              {<<IntValue(fast_hash_compute(<<65>>))>>,
                               <<IntValue(fast_hash_compute(<<65, 66>>))>>},
                              {<<>>}, {<<>>})}

\* One session, made from the response `served`.
FirstSession(served) ==
  /\ sessions = [sid \in SessionIds |->
                   IF sid = 1 THEN ResponseChecker(served, OriginalFont) ELSE NoSession]
  /\ last_call = NoCall
  /\ requests = <<>>
  /\ IdleIntegerList /\ IdleFastHash /\ IdleAxis /\ IdleIntervals /\ IdleCompressedSet

InitChecker == \E served \in CheckedResponses : FirstSession(served)

InitSessions == \E served \in FirstResponses : FirstSession(served)

\* A method call with `arguments` on a session there is, while the run has
\* calls left, that ended as `outcome`: the attributes the method assigned
\* belong to that session.
Call(sid, method, arguments, outcome) ==
  /\ last_call.number < MaxCalls
  /\ sessions[sid] # NoSession
  /\ sessions' = store(sessions, sid, outcome.self)
  /\ last_call' = [number |-> last_call.number + 1, session |-> sid, method |-> method,
                   arguments |-> arguments, result |-> outcome.result]

SuccessfulResponseChecks(sid) ==
  /\ Call(sid, "successful_response_checks", <<>>, successful_response_checks(sessions[sid]))
  /\ UNCHANGED <<requests, integer_list_vars, fast_hash_vars, axis_vars, interval_vars,
                 compressed_set_vars>>

ResponseWellFormed(sid) ==
  /\ Call(sid, "response_well_formed", <<>>, response_well_formed(sessions[sid]))
  /\ UNCHANGED <<requests, integer_list_vars, fast_hash_vars, axis_vars, interval_vars,
                 compressed_set_vars>>

Response(sid) ==
  /\ Call(sid, "response", <<>>, response(sessions[sid]))
  /\ UNCHANGED <<requests, integer_list_vars, fast_hash_vars, axis_vars, interval_vars,
                 compressed_set_vars>>

CodepointMapping(sid) ==
  /\ Call(sid, "codepoint_mapping", <<>>, codepoint_mapping(sessions[sid]))
  /\ UNCHANGED <<requests, integer_list_vars, fast_hash_vars, axis_vars, interval_vars,
                 compressed_set_vars>>

CheckApplyPatchTo(sid) ==
  /\ \E min_codepoints \in {{}, {65}, {67}}, same_shaping \in BOOLEAN :
       Call(sid, "check_apply_patch_to", <<min_codepoints>>,
            check_apply_patch_to(sessions[sid], min_codepoints, {}, same_shaping))
  /\ UNCHANGED <<requests, integer_list_vars, fast_hash_vars, axis_vars, interval_vars,
                 compressed_set_vars>>

\* extend on the first session, with or without a codepoint map (none, an
\* empty one, the one of a server that orders A before B) and with or without
\* each override (12345 and 1234, the values the tests give): when the request is built, the
\* requester sends it and makes the session of the answer, which is given the
\* base.
Extend(sid, new_sid) ==
  /\ last_call.number < MaxCalls
  /\ sessions[sid] # NoSession
  /\ sessions[new_sid] = NoSession
  /\ \E new_codepoints \in {{66}, {300}},
        codepoint_map \in {None, MapValue(<<>>),
                           MapValue((WideOf(65) :> 0) @@ (WideOf(66) :> 1))},
        override_reordering_checksum \in {None, IntValue(<<57, 48, 0, 0, 0, 0, 0, 0>>)},
        override_original_checksum \in {None, WrongChecksum},
        override_base_checksum \in {None, WrongChecksum} :
       LET arguments == [new_codepoints |-> new_codepoints,
                         codepoint_map |-> codepoint_map,
                         override_reordering_checksum |-> override_reordering_checksum,
                         override_original_checksum |-> override_original_checksum,
                         override_base_checksum |-> override_base_checksum]
           built == extend(sessions[sid], new_codepoints, codepoint_map,
                           override_reordering_checksum, override_original_checksum,
                           override_base_checksum)
       IN
       IF built.result.status = "returned"
         THEN /\ \E served \in ExtendResponses :
                   sessions' = store(store(sessions, sid, built.self), new_sid,
                                     [ResponseChecker(served, sessions[sid].original_font_bytes)
                                        EXCEPT !.base = built.result.value.base])
              /\ requests' = Append(requests, built.result.value.value)
              /\ last_call' = [number |-> last_call.number + 1, session |-> sid,
                               method |-> "extend", arguments |-> arguments,
                               result |-> [status |-> "returned",
                                           value |-> [type |-> "checker", session |-> new_sid]]]
         ELSE /\ Call(sid, "extend", arguments, built)
              /\ UNCHANGED requests
  /\ UNCHANGED <<integer_list_vars, fast_hash_vars, axis_vars, interval_vars,
                 compressed_set_vars>>

\* The checks of one response, in any order.
NextChecker ==
  \/ SuccessfulResponseChecks(1)
  \/ ResponseWellFormed(1)
  \/ Response(1)
  \/ CodepointMapping(1)

SpecChecker == InitChecker /\ [][NextChecker]_vars

\* The session the last call was made on, and the payload of its response.
Called == sessions[last_call.session]

CalledPayload == Called.response_data.payload

\* fast_hash.compute of the original font.
OriginalFontHash == compute(OriginalFont)

LacksRequired(fields) ==
  \/ /\ PATCH \in DOMAIN fields \/ REPLACEMENT \in DOMAIN fields
     /\ \/ PATCH_FORMAT \notin DOMAIN fields
        \/ PATCHED_CHECKSUM \notin DOMAIN fields
        \/ ORIGINAL_FONT_CHECKSUM \notin DOMAIN fields
  \/ CODEPOINT_ORDERING \in DOMAIN fields /\ ORDERING_CHECKSUM \notin DOMAIN fields

\* C13 as stated: response_well_formed on a response that lacks a field it
\* requires ends as a conformance failure whose message names a rule id,
\* never as any other kind of error.
C13_MissingFieldFails ==
  (/\ last_call.method = "response_well_formed"
   /\ CalledPayload.type = "map"
   /\ LacksRequired(CalledPayload.value)) =>
    /\ last_call.result.status = "failed"
    /\ last_call.result.message.conformance_id # {}

\* C18 as stated: on every session the payload is decoded only after the
\* magic check has been performed and has passed.
C18_DecodedOnlyAfterMagic ==
  \A sid \in SessionIds :
    (sessions[sid] # NoSession /\ sessions[sid].loads_calls > 0) =>
      /\ "conform-magic-number" \in sessions[sid].tested_ids
      /\ sessions[sid].response_data.magic = <<73, 70, 84, 32>>

\* C18, amended: a successful_response_checks call on a response whose first
\* 4 bytes are not the magic fails at the status check or at the magic check
\* and neither decodes the payload nor changes what was decoded before.
C18_ChecksStopAtWrongMagic ==
  [][(/\ last_call'.method = "successful_response_checks"
      /\ sessions[last_call'.session].response_data.magic # <<73, 70, 84, 32>>) =>
       /\ last_call'.result.status = "failed"
       /\ last_call'.result.message.conformance_id
            \in {{"conform-successful-response"}, {"conform-magic-number"}}
       /\ sessions'[last_call'.session].loads_calls = sessions[last_call'.session].loads_calls
       /\ sessions'[last_call'.session].response_obj = sessions[last_call'.session].response_obj]_vars

\* The magic check failed on a response whose payload response() had decoded
\* before.
C18_Witness ==
  /\ last_call.method = "successful_response_checks"
  /\ last_call.result.status = "failed"
  /\ last_call.result.message.conformance_id = {"conform-magic-number"}
  /\ Called.loads_calls = 1
  /\ Called.response_obj # None

\* C19 as stated: on a payload that is CBOR, response() decodes at most
\* once, every call fails with conform-object or returns a map, and a payload
\* that is no map never gives a value back.
C19_MapOrFailure ==
  (last_call.method = "response" /\ CalledPayload.type # "invalid") =>
    /\ Called.loads_calls <= 1
    /\ \/ last_call.result.status = "returned" /\ last_call.result.value.type = "map"
       \/ /\ last_call.result.status = "failed"
          /\ last_call.result.message.conformance_id = {"conform-object"}
    /\ CalledPayload.type # "map" => last_call.result.status # "returned"

\* ------------------------------------------------------------------------
\* Specification of ResponseChecker.original_axis_space: the axis space
\* check on one response
\* ------------------------------------------------------------------------

\* Points, ranges that touch, overlap and lie apart, a range with end below
\* start, and an interval without start.
CheckedIntervals ==
  {Point(1), Point(3), Range(1, 2), Range(2, 3), Range(1, 3), Range(2, 1), AXIS_END :> 2}

\* The items of an axis space dict, in the order the dict yields them: no
\* tag, one tag, two tags in either order, each with a list of up to
\* MaxAxisIntervals intervals.
CheckedSpaces ==
  LET lists == UNION {[1..n -> CheckedIntervals] : n \in 0..MaxAxisIntervals} IN
  {<<>>}
    \cup {<<<<tag, list>>>> : tag \in Tags, list \in lists}
    \cup {<<<<order[1], first>>, <<order[2], second>>>> :
            order \in {<<"wght", "wdth">>, <<"wdth", "wght">>},
            first \in lists, second \in lists}

InitAxisCheck ==
  \E space \in CheckedSpaces :
    FirstSession([status |-> 200,
                  read |-> [magic |-> MAGIC,
                            payload |-> MapValue((PROTOCOL_VERSION :> IntValue(0))
                                                 @@ (ORIGINAL_AXIS_SPACE :> MapValue(space)))],
                  url |-> "first"])

OriginalAxisSpace(sid) ==
  /\ Call(sid, "original_axis_space", <<>>, original_axis_space(sessions[sid]))
  /\ UNCHANGED <<requests, integer_list_vars, fast_hash_vars, axis_vars, interval_vars,
                 compressed_set_vars>>

NextAxisCheck == OriginalAxisSpace(1)

SpecAxisCheck == InitAxisCheck /\ [][NextAxisCheck]_vars

\* The interval has a start, and an end only above it.
WellFormedInterval(interval) ==
  /\ AXIS_START \in DOMAIN interval
  /\ AXIS_END \in DOMAIN interval => interval[AXIS_END] > interval[AXIS_START]

\* The last value of a well-formed interval: its end, or its start for a point.
LastValue(interval) ==
  IF AXIS_END \in DOMAIN interval THEN interval[AXIS_END] ELSE interval[AXIS_START]

\* Every interval of the list is well formed and ends before the next starts.
SortedDisjoint(list) ==
  /\ \A i \in 1..Len(list) : WellFormedInterval(list[i])
  /\ \A i \in 1..(Len(list) - 1) : LastValue(list[i]) < list[i + 1][AXIS_START]

\* C17 as stated: axis_space_well_formed reports a conformance failure if and
\* only if the list of some tag has an ill-formed interval or two intervals
\* that overlap or are out of order, and passes every other space.
C17_FailsIffIllFormed ==
  last_call.method = "original_axis_space" =>
    LET space == CalledPayload.value[ORIGINAL_AXIS_SPACE].value
        sound == \A k \in 1..Len(space) : SortedDisjoint(space[k][2])
    IN /\ last_call.result.status = "failed" <=> ~sound
       /\ sound => last_call.result.status = "returned"

\* The calls of a test on a first response and on the response to its extend.
NextSessions ==
  \/ \E sid \in SessionIds :
       \/ SuccessfulResponseChecks(sid)
       \/ Response(sid)
       \/ CodepointMapping(sid)
       \/ CheckApplyPatchTo(sid)
  \/ Extend(1, 2)

SpecSessions == InitSessions /\ [][NextSessions]_vars

\* decode_patch of the last call ran xdelta3 and it exited with a nonzero status.
ToolFailed ==
  /\ last_call.method = "check_apply_patch_to"
  /\ Called.xdelta3_input.called
  /\ xdelta3(Called.xdelta3_input.base, Called.xdelta3_input.patch).returncode # 0

\* C12 as stated: every check records its rule id in tested_ids whenever it
\* runs, whether it passes or fails: the status check of
\* successful_response_checks, the decode of codepoint_ordering in
\* codepoint_mapping, the patch decoding check of decode_patch.
C12_ChecksRecorded ==
  /\ last_call.method = "successful_response_checks" =>
       "conform-successful-response" \in Called.tested_ids
  /\ (/\ last_call.method = "codepoint_mapping"
      /\ CODEPOINT_ORDERING \in DOMAIN CalledPayload.value) =>
       "conform-uintbase128-illegal" \in Called.tested_ids
  /\ (last_call.method = "check_apply_patch_to" /\ Called.xdelta3_input.called) =>
       "conform-response-valid-patch" \in Called.tested_ids

\* C14 as stated: when xdelta3 exits with a nonzero status, decode_patch ends
\* as a conformance failure that names conform-response-valid-patch and the
\* request URL.
C14_ToolFailureReported ==
  ToolFailed =>
    /\ last_call.result.status = "failed"
    /\ "conform-response-valid-patch" \in last_call.result.message.conformance_id
    /\ last_call.result.message.url = Called.url

\* C15: a call on one session leaves the tested_ids of every other session
\* as they were, and a session starts with no tested id.
C15_OwnTestedIds ==
  [][\A sid \in SessionIds :
       /\ (sessions[sid] # NoSession /\ last_call'.session # sid) =>
            sessions'[sid].tested_ids = sessions[sid].tested_ids
       /\ (sessions[sid] = NoSession /\ sessions'[sid] # NoSession) =>
            sessions'[sid].tested_ids = {}]_vars

\* Both sessions have been checked and hold different ids.
C15_Witness ==
  /\ sessions[2] # NoSession
  /\ last_call.session = 2
  /\ last_call.method = "check_apply_patch_to"
  /\ sessions[2].tested_ids # {}
  /\ sessions[1].tested_ids # sessions[2].tested_ids

\* The bytes of the patch or replacement field a session applies.
PatchBytes(self) ==
  IF REPLACEMENT \in DOMAIN self.response_data.payload.value
    THEN self.response_data.payload.value[REPLACEMENT].value
    ELSE self.response_data.payload.value[PATCH].value

\* C20: check_apply_patch_to applies a replacement to the empty base and a
\* patch to the session's base, which is empty on the first session and the
\* subset the first session decoded on the session its extend returned, and
\* it leaves the session's base as it was.
C20_AppliedToBase ==
  [][last_call'.method = "check_apply_patch_to" =>
       LET sid == last_call'.session IN
       /\ sessions'[sid].base = sessions[sid].base
       /\ sessions[sid].base =
            IF sid = 1 THEN <<>>
            ELSE xdelta3(sessions[1].xdelta3_input.base, sessions[1].xdelta3_input.patch).output
       /\ sessions'[sid].xdelta3_input.called =>
            /\ sessions'[sid].xdelta3_input.patch = PatchBytes(sessions[sid])
            /\ sessions'[sid].xdelta3_input.base =
                 IF REPLACEMENT \in DOMAIN sessions[sid].response_data.payload.value
                   THEN <<>>
                   ELSE sessions[sid].base]_vars

\* The session returned by extend applied its patch to the subset of the
\* first session.
C20_Witness ==
  /\ last_call.method = "check_apply_patch_to"
  /\ last_call.session = 2
  /\ last_call.result.status = "returned"
  /\ sessions[2].base = <<65>>
  /\ sessions[2].xdelta3_input = [called |-> TRUE, base |-> <<65>>, patch |-> <<214, 66>>]

\* The last call was an extend that built its request and returned the new
\* session.
Extended == last_call.method = "extend" /\ last_call.result.status = "returned"

\* The subset a session gets by applying its response: a replacement stands
\* on the empty base, a patch on the session's base.
SubsetOf(self) ==
  xdelta3(IF REPLACEMENT \in DOMAIN self.response_data.payload.value THEN <<>> ELSE self.base,
          PatchBytes(self)).output

\* C21: the request extend builds carries the original_font_checksum of the
\* previous response and as base_checksum the hash of the subset the previous
\* response decodes to, each unless its override is given (then the
\* override), and the session extend returns has that subset as its base.
C21_ExtendCarriesForward ==
  [][(last_call'.method = "extend" /\ last_call'.result.status = "returned") =>
       LET self == sessions[last_call'.session]
           given == last_call'.arguments
           request == requests'[Len(requests')]
       IN
       /\ Len(requests') = Len(requests) + 1
       /\ request[REQUEST_ORIGINAL_FONT_CHECKSUM] =
            IF given.override_original_checksum = None
              THEN self.response_data.payload.value[ORIGINAL_FONT_CHECKSUM]
              ELSE given.override_original_checksum
       /\ request[BASE_CHECKSUM] =
            IF given.override_base_checksum = None
              THEN IntValue(fast_hash_compute(SubsetOf(self)))
              ELSE given.override_base_checksum
       /\ sessions'[last_call'.result.value.session].base = SubsetOf(self)]_vars

\* An extend without overrides sent the two checksums of the first response
\* and its subset, which are different, and the new session stands on the
\* subset.
C21_Witness ==
  /\ Extended
  /\ last_call.arguments.override_original_checksum = None
  /\ last_call.arguments.override_base_checksum = None
  /\ requests[1][REQUEST_ORIGINAL_FONT_CHECKSUM] = IntValue(fast_hash_compute(OriginalFont))
  /\ requests[1][BASE_CHECKSUM] = IntValue(fast_hash_compute(<<65>>))
  /\ sessions[2].base = <<65>>

\* C22 as stated: a response that passes response_well_formed with a patch or
\* replacement in a recognized format has its bytes handed to patch
\* application by check_apply_patch_to, and the call does not fail for the
\* format.
C22_RecognizedFormatApplied ==
  (/\ last_call.method = "check_apply_patch_to"
   /\ response_well_formed(Called).result.status = "returned"
   /\ {PATCH, REPLACEMENT} \cap DOMAIN CalledPayload.value # {}
   /\ CalledPayload.value[PATCH_FORMAT].value \in PATCH_FORMATS) =>
     /\ Called.xdelta3_input.called
     /\ Called.xdelta3_input.patch = PatchBytes(Called)
     /\ ~(last_call.result.status = "failed" /\ last_call.result.message.conformance_id = {})

\* C23 as stated: the request of extend has indices_have, indices_needed and
\* ordering_checksum exactly when the codepoints were remapped through a
\* codepoint map, and else codepoints_have and codepoints_needed with the
\* codepoints as they were given and no ordering_checksum.
C23_IndicesIffRemapped ==
  Extended =>
    LET given == last_call.arguments
        request == requests[Len(requests)]
        remapped == given.codepoint_map # None /\ DOMAIN given.codepoint_map.value # {}
        index_fields == {INDICES_HAVE, INDICES_NEEDED, REQUEST_ORDERING_CHECKSUM}
        codepoint_fields == {CODEPOINTS_HAVE, CODEPOINTS_NEEDED}
    IN
    IF remapped
      THEN /\ index_fields \subseteq DOMAIN request
           /\ codepoint_fields \cap DOMAIN request = {}
      ELSE /\ codepoint_fields \subseteq DOMAIN request
           /\ index_fields \cap DOMAIN request = {}
           /\ request[CODEPOINTS_NEEDED] = compressed_set(given.new_codepoints).value

\* ------------------------------------------------------------------------
\* Specification of the malformed request tests: a test sends its fixture,
\* the server answers, and the test checks the answer with is_error_400
\* ------------------------------------------------------------------------

\* sample_requests.py: the fixtures, as the objects handed to dumps.
COMPRESSED_SET_41 == (RANGE_DELTAS :> <<65, 0>>)

MINIMAL_REQUEST ==
  (PROTOCOL_VERSION :> IntValue(0)) @@ (ACCEPT_PATCH_FORMAT :> <<VCDIFF>>)
    @@ (CODEPOINTS_NEEDED :> COMPRESSED_SET_41)

MALFORMED_VERSION_REQUEST ==
  (PROTOCOL_VERSION :> IntValue(578343)) @@ (ACCEPT_PATCH_FORMAT :> <<VCDIFF>>)
    @@ (CODEPOINTS_NEEDED :> COMPRESSED_SET_41)

MALFORMED_ORDERING_CHECKSUM_REQUEST ==
  (PROTOCOL_VERSION :> IntValue(578343)) @@ (ACCEPT_PATCH_FORMAT :> <<VCDIFF>>)
    @@ (INDICES_NEEDED :> COMPRESSED_SET_41)

MALFORMED_BASE_CHECKSUM_REQUEST ==
  (PROTOCOL_VERSION :> IntValue(578343)) @@ (ACCEPT_PATCH_FORMAT :> <<VCDIFF>>)
    @@ (CODEPOINTS_HAVE :> COMPRESSED_SET_41) @@ (CODEPOINTS_NEEDED :> COMPRESSED_SET_41)

\* ResponseChecker.is_error_400: the message, and with it the record of the
\* tags, is made before the status is compared.  "if extra_tag" is false for
\* no tag, which is written "" here.
is_error_400(self, extra_tag) ==
  LET msg == conform_message(self, {"conform-reject-malformed-request"}
                                     \cup (IF extra_tag = "" THEN {} ELSE {extra_tag}))
  IN IF self.status_code = 400 THEN Returns(msg.self, None) ELSE Fails(msg)

\* test_server.py: the fixture each test sends and the rule id it hands to
\* is_error_400.
MalformedTests ==
  {[data |-> MALFORMED_VERSION_REQUEST, extra_tag |-> "conform-request-protocol-version"],
   [data |-> MALFORMED_ORDERING_CHECKSUM_REQUEST,
    extra_tag |-> "conform-request-ordering-checksum"],
   [data |-> MALFORMED_BASE_CHECKSUM_REQUEST, extra_tag |-> "conform-request-base-checksum"]}

InitFixtures ==
  /\ IdleChecker
  /\ IdleIntegerList /\ IdleFastHash /\ IdleAxis /\ IdleIntervals /\ IdleCompressedSet

\* One test_rejects_malformed_..._request: the fixture is sent, the server
\* answers with a status and a body of its choice, and is_error_400 is called
\* on the session of the answer with the rule id of the test.
TestRejectsMalformed(sid) ==
  /\ last_call.number < MaxCalls
  /\ sessions[sid] = NoSession
  /\ \E test \in MalformedTests, status \in {200, 400}, answer \in FirstResponses :
       LET served == [answer EXCEPT !.status = status, !.url = "fixture"]
           outcome == is_error_400(ResponseChecker(served, OriginalFont), test.extra_tag)
       IN
       /\ sessions' = store(sessions, sid, outcome.self)
       /\ requests' = Append(requests, test.data)
       /\ last_call' = [number |-> last_call.number + 1, session |-> sid,
                        method |-> "is_error_400", arguments |-> <<test.extra_tag>>,
                        result |-> outcome.result]
  /\ UNCHANGED <<integer_list_vars, fast_hash_vars, axis_vars, interval_vars,
                 compressed_set_vars>>

NextFixtures == \E sid \in SessionIds : TestRejectsMalformed(sid)

SpecFixtures == InitFixtures /\ [][NextFixtures]_vars

\* C24 as stated: when is_error_400 passed on the answer to a fixture and
\* recorded the rule id of the test, the fixture breaks that rule only: the
\* version fixture is the valid minimal request but for protocol_version,
\* and the ordering checksum and base checksum fixtures carry protocol_version
\* 0 and lack the checksum their set fields call for.
C24_FixtureBreaksOwnRuleOnly ==
  (last_call.method = "is_error_400" /\ last_call.result.status = "returned") =>
    LET request == requests[Len(requests)]
        tag == last_call.arguments[1]
    IN
    /\ tag \in Called.tested_ids
    /\ tag = "conform-request-protocol-version" =>
         /\ DOMAIN request = DOMAIN MINIMAL_REQUEST
         /\ \A key \in DOMAIN request \ {PROTOCOL_VERSION} : request[key] = MINIMAL_REQUEST[key]
         /\ request[PROTOCOL_VERSION] # MINIMAL_REQUEST[PROTOCOL_VERSION]
    /\ tag = "conform-request-ordering-checksum" =>
         /\ request[PROTOCOL_VERSION] = IntValue(0)
         /\ INDICES_NEEDED \in DOMAIN request
         /\ REQUEST_ORDERING_CHECKSUM \notin DOMAIN request
    /\ tag = "conform-request-base-checksum" =>
         /\ request[PROTOCOL_VERSION] = IntValue(0)
         /\ CODEPOINTS_HAVE \in DOMAIN request
         /\ BASE_CHECKSUM \notin DOMAIN request

====
